---- MODULE Spec2Model ----
(***************************************************************************)
(* The real-time connection and channel broadcast manager of               *)
(* src/services/realtime/main.py: ConnectionManager, WebSocketConnection,  *)
(* the /ws endpoint, the heartbeat loop and the administrative routes.     *)
(*                                                                         *)
(* The service is one asyncio event loop: a task runs without interruption *)
(* from one await to the next, so every action below is the code of one    *)
(* task between two awaits.  Consecutive awaits with no access to shared   *)
(* state between them (e.g. redis.srem followed by send_text) are one      *)
(* suspension point; the effect of the awaited calls happens when the task *)
(* resumes.                                                                *)
(***************************************************************************)
EXTENDS Integers, Sequences, FiniteSets, TLC

\* ------------------------------------------------------------- bounds
NumConns == 3          \* websocket clients; each calls connect at most once
NumAdmins == 2         \* concurrent administrative HTTP requests
MaxFrames == 2         \* frames a client sends on one connection
MaxSweeps == 1         \* heartbeat sweeps
MaxTime == 2           \* clock ticks

\* ------------------------------------------- configuration (class Config)
MAX_CONNECTIONS_PER_USER == 2
CONNECTION_TIMEOUT == 1

Conns == 1..NumConns
HB == NumConns - NumConns
Admins == (NumConns + 1)..(NumConns + NumAdmins)
Procs == 0..(NumConns + NumAdmins)
Users == {"u1", "u2"}
Anon == "anon"
Channels == {"ch1", "ch2"}
NoCh == "-"
NoConn == HB

VARIABLES
    active_connections,     \* keys of ConnectionManager.active_connections
    user_connections,       \* user id -> set of connection ids (keys = DOMAIN)
    channel_subscriptions,  \* channel -> set of connection ids (keys = DOMAIN)
    conn,                   \* the WebSocketConnection objects, by connection id
    ws,                     \* the transport of each client: new, open, closed
    redis_ok,               \* whether the external store answers
    now,                    \* datetime.now()
    sent,                   \* frames written to each client, in order
    pc,                     \* where each task is suspended
    ep,                     \* locals of the websocket_endpoint tasks
    dc,                     \* locals of each task's disconnect call
    hb,                     \* locals of _heartbeat_loop
    bc,                     \* locals of each task's broadcast_to_channel call
    set_id,                 \* which set object the key of a channel or of a user holds
    store,                  \* the store's message list of each channel, newest first
    next_mid                \* message ids handed out (uuid4)

maps == <<active_connections, user_connections, channel_subscriptions, conn, set_id>>
bvars == <<bc, store, next_mid>>
vars == <<active_connections, user_connections, channel_subscriptions, conn, set_id,
          ws, redis_ok, now, sent, pc, ep, dc, hb, bc, store, next_mid>>

EmptyMap == [k \in {} |-> {}]

\* WebSocketConnection.__init__
NewConnection(uid, t) ==
    [user_id |-> uid, connected_at |-> t, last_seen |-> t,
     subscribed_channels |-> {}, channel_configs |-> EmptyMap]

Frame(type, channel) == [type |-> type, channel |-> channel, mid |-> 0]

ConnAck_Unnamed(cid) ==
    [type |-> "connection_ack", channel |-> NoCh, mid |-> 0, connection_id |-> NoConn]

\* connect: the connection_ack frame carries the connection id
ConnAck(cid) ==
    [type |-> "connection_ack", channel |-> NoCh, mid |-> 0, connection_id |-> cid]

\* A frame that carries the message a broadcast built.
MsgFrame(type, channel, mid) == [type |-> type, channel |-> channel, mid |-> mid]

\* The manager's three maps and the connection objects as one value, so that
\* the synchronous stretches of the code compose as functions.
Cur ==
    [ac |-> active_connections, uc |-> user_connections,
     cs |-> channel_subscriptions, cn |-> conn, id |-> set_id]

Apply(m) ==
    /\ active_connections' = m.ac
    /\ user_connections' = m.uc
    /\ channel_subscriptions' = m.cs
    /\ conn' = m.cn
    /\ set_id' = m.id

\* dict.get(key, set())
Get(f, k) == IF k \in DOMAIN f THEN f[k] ELSE {}

\* del d[key]
Del(f, k) == [x \in (DOMAIN f) \ {k} |-> f[x]]

\* d[key] = value
Put(f, k, v) == [x \in (DOMAIN f) \cup {k} |-> IF x = k THEN v ELSE f[x]]

\* send_message / receive_message: self.last_seen = datetime.now()
Touch(m, cid, t) == [m EXCEPT !.cn[cid].last_seen = t]

\* ------------------------------------------------ synchronous stretches

\* connect: the per-user limit test
OverLimit_OffByOne(uc, uid) ==
    /\ uid # Anon
    /\ Cardinality(Get(uc, uid)) > MAX_CONNECTIONS_PER_USER

OverLimit(uc, uid) ==
    /\ uid # Anon
    /\ Cardinality(Get(uc, uid)) >= MAX_CONNECTIONS_PER_USER

RegisterSync_AnonIndexed(m, cid, uid) ==
    [m EXCEPT !.ac = @ \cup {cid},
              !.uc = Put(@, uid, Get(@, uid) \cup {cid})]

\* connect: register the connection
RegisterSync(m, cid, uid) ==
    [m EXCEPT !.ac = @ \cup {cid},
              !.uc = IF uid # Anon THEN Put(@, uid, Get(@, uid) \cup {cid}) ELSE @,
              !.id = IF uid # Anon /\ uid \notin DOMAIN m.uc
                     THEN [@ EXCEPT ![uid] = @ + 1] ELSE @]

SubscribeSync_ConfigKept(m, cid, ch, cfg) ==
    [m EXCEPT !.cs = Put(@, ch, Get(@, ch) \cup {cid}),
              !.id[ch] = IF ch \in DOMAIN m.cs THEN @ ELSE @ + 1,
              !.cn[cid].subscribed_channels = @ \cup {ch},
              !.cn[cid].channel_configs = IF ch \in DOMAIN @ THEN @ ELSE Put(@, ch, cfg)]

\* subscribe_channel: both sides of the subscription ("= set()" makes a new set
\* object when the channel has no key)
SubscribeSync(m, cid, ch, cfg) ==
    [m EXCEPT !.cs = Put(@, ch, Get(@, ch) \cup {cid}),
              !.id[ch] = IF ch \in DOMAIN m.cs THEN @ ELSE @ + 1,
              !.cn[cid].subscribed_channels = @ \cup {ch},
              !.cn[cid].channel_configs = Put(@, ch, cfg)]

UnsubscribeSync_ChannelSideOnly(m, cid, ch) ==
    [m EXCEPT !.cs = IF ch \in DOMAIN @
                     THEN IF @[ch] \ {cid} = {} THEN Del(@, ch)
                          ELSE [@ EXCEPT ![ch] = @ \ {cid}]
                     ELSE @]

UnsubscribeSync_KeepsEmpty(m, cid, ch) ==
    [m EXCEPT !.cs = IF ch \in DOMAIN @ THEN [@ EXCEPT ![ch] = @ \ {cid}] ELSE @,
              !.cn[cid].subscribed_channels = @ \ {ch},
              !.cn[cid].channel_configs = Del(@, ch)]

UnsubscribeSync_DropsChannel(m, cid, ch) ==
    [m EXCEPT !.cs = IF ch \in DOMAIN @
                     THEN IF cid \notin @[ch] \/ @[ch] \ {cid} = {} THEN Del(@, ch)
                          ELSE [@ EXCEPT ![ch] = @ \ {cid}]
                     ELSE @,
              !.cn[cid].subscribed_channels = @ \ {ch},
              !.cn[cid].channel_configs = Del(@, ch)]

\* unsubscribe_channel: both sides of the subscription
UnsubscribeSync(m, cid, ch) ==
    [m EXCEPT !.cs = IF ch \in DOMAIN @
                     THEN IF @[ch] \ {cid} = {} THEN Del(@, ch)
                          ELSE [@ EXCEPT ![ch] = @ \ {cid}]
                     ELSE @,
              !.cn[cid].subscribed_channels = @ \ {ch},
              !.cn[cid].channel_configs = Del(@, ch)]

RemoveUserSync_KeepsEmpty(m, cid, uid) ==
    [m EXCEPT !.uc = IF uid # Anon /\ uid \in DOMAIN @
                     THEN [@ EXCEPT ![uid] = @ \ {cid}]
                     ELSE @]

RemoveUserSync_DropsUser(m, cid, uid) ==
    [m EXCEPT !.uc = IF uid # Anon /\ uid \in DOMAIN @ THEN Del(@, uid) ELSE @]

\* disconnect: remove the connection from its user's set
RemoveUserSync(m, cid, uid) ==
    [m EXCEPT !.uc = IF uid # Anon /\ uid \in DOMAIN @
                     THEN IF @[uid] \ {cid} = {} THEN Del(@, uid)
                          ELSE [@ EXCEPT ![uid] = @ \ {cid}]
                     ELSE @]

Registered_Unchecked(m, cid) == TRUE

\* disconnect: "if connection_id not in self.active_connections: return"
Registered(m, cid) == cid \in m.ac

Known_Unchecked(m, cid) == TRUE

\* subscribe_channel: "if connection_id not in self.active_connections: raise"
Known(m, cid) == cid \in m.ac

\* The choices of the next element of a set iteration; NoCh when it is over.
Pick(s) == IF s = {} THEN {NoCh} ELSE s

\* disconnect from the head of its unsubscribe loop, up to its next await:
\*   k = "unsub":  suspended in unsubscribe_channel(cid, ch)
\*   k = "rminfo": suspended in _remove_connection_info
\*   k = "raise":  del self.active_connections[cid] raised KeyError
\* (unsubscribe_channel returns at once for an id that is not registered).
DisconnectLoop(m, cid, uid, rem, ch) ==
    IF cid \notin m.ac
    THEN [k |-> "raise", m |-> RemoveUserSync(m, cid, uid), rem |-> {}, ch |-> NoCh]
    ELSE IF rem = {}
    THEN [k |-> "rminfo",
          m |-> [RemoveUserSync(m, cid, uid) EXCEPT !.ac = @ \ {cid}],
          rem |-> {}, ch |-> NoCh]
    ELSE [k |-> "unsub", m |-> UnsubscribeSync(m, cid, ch),
          rem |-> rem \ {ch}, ch |-> ch]

\* The client's transport takes frames: the client has not closed it and the
\* endpoint has not returned (the server closes the socket when it does).
Open(c) == ws[c] = "open" /\ pc[c] # "done"

InDisconnect(p) == pc[p] \in {"d_unsub", "d_rminfo"}

NoCall == [cid |-> NoConn, uid |-> Anon, chans |-> {}, ch |-> NoCh,
           res |-> "none", overlap |-> FALSE]

\* The disconnect calls in progress on cid, other than p's.
Others(p, cid) == {q \in Procs \ {p} : InDisconnect(q) /\ dc[q].cid = cid}

\* p calls disconnect(cid) on a registered id: the code up to the first await.
DisconnectBegin(p, cid, m) ==
    \E ch \in Pick(m.cn[cid].subscribed_channels) :
        LET o == DisconnectLoop(m, cid, m.cn[cid].user_id,
                                m.cn[cid].subscribed_channels, ch)
        IN  /\ Apply(o.m)
            /\ pc' = [pc EXCEPT ![p] = IF o.k = "unsub" THEN "d_unsub" ELSE "d_rminfo"]
            /\ dc' = [q \in Procs |->
                        IF q = p
                        THEN [cid |-> cid, uid |-> m.cn[cid].user_id, chans |-> o.rem,
                              ch |-> o.ch, res |-> "none",
                              overlap |-> Others(p, cid) # {}]
                        ELSE IF q \in Others(p, cid)
                        THEN [dc[q] EXCEPT !.overlap = TRUE]
                        ELSE dc[q]]

\* p calls disconnect(cid) on an id that is not registered: it returns at once.
DisconnectNoop(p, cid) ==
    dc' = [q \in Procs |->
             IF q = p
             THEN [NoCall EXCEPT !.cid = cid, !.res = "noop",
                                 !.overlap = Others(p, cid) # {}]
             ELSE IF q \in Others(p, cid)
             THEN [dc[q] EXCEPT !.overlap = TRUE]
             ELSE dc[q]]

\* An endpoint or an administrative request calls disconnect(cid).
DisconnectCall(p, cid, m) ==
    IF Registered(m, cid)
    THEN DisconnectBegin(p, cid, m)
    ELSE /\ DisconnectNoop(p, cid)
         /\ Apply(m)
         /\ pc' = [pc EXCEPT ![p] = "done"]

\* The first id of the eviction list on which disconnect does not return at once.
RECURSIVE DropNoops(_, _)
DropNoops(list, ac) ==
    IF list = <<>> THEN <<>>
    ELSE IF Registered([ac |-> ac], Head(list)) THEN list
    ELSE DropNoops(Tail(list), ac)

\* _heartbeat_loop: "for connection_id in disconnected_connections:
\*     await self.disconnect(connection_id)", then asyncio.sleep
HBEvict(m, h) ==
    LET rest == DropNoops(h.evict, m.ac)
    IN  IF rest = <<>>
        THEN /\ Apply(m)
             /\ pc' = [pc EXCEPT ![HB] = "hb_sleep"]
             /\ hb' = [h EXCEPT !.evict = <<>>, !.cur = NoConn, !.last = "done"]
             /\ dc' = dc
        ELSE /\ DisconnectBegin(HB, Head(rest), m)
             /\ hb' = [h EXCEPT !.evict = Tail(rest), !.cur = NoConn]

\* _heartbeat_loop: "except Exception" around one sweep, then asyncio.sleep
HBAbort(m, h, res) ==
    /\ Apply(m)
    /\ pc' = [pc EXCEPT ![HB] = "hb_sleep"]
    /\ hb' = [h EXCEPT !.evict = <<>>, !.cur = NoConn, !.last = res]

\* p's disconnect call ends with res ("ok", or the exception it raises), the
\* maps being m: what its caller does next, up to the caller's next await.
\*   websocket_endpoint: the call is its last statement (finally)
\*   disconnect_connection: returns the response (or fails with it)
\*   _heartbeat_loop: goes on with its eviction list, or gives the sweep up
DisconnectEnd(p, res, m) ==
    IF p = HB
    THEN IF res = "ok"
         THEN HBEvict(m, hb)
         ELSE /\ HBAbort(m, hb, res)
              /\ dc' = [dc EXCEPT ![p].res = res]
    ELSE /\ Apply(m)
         /\ pc' = [pc EXCEPT ![p] = "done"]
         /\ dc' = [dc EXCEPT ![p].res = res]
         /\ hb' = hb

\* ---------------------------------------------------- broadcast_to_channel

MAX_MESSAGES_PER_CHANNEL == 3
HISTORY_WINDOW == 3

Min(a, b) == IF a < b THEN a ELSE b

Reverse_Kept(s) == s

RECURSIVE Reverse(_)
\* list.reverse()
Reverse(s) == IF s = <<>> THEN <<>> ELSE Append(Reverse(Tail(s)), Head(s))

\* An Optional[List[str]] of user ids: None, or the ids it lists.
NoIds == [given |-> FALSE, ids |-> {}]
Ids(us) == [given |-> TRUE, ids |-> us]

\* "if message.include_user_ids:" holds for a list that is given and not empty.
Truthy(l) == l.given /\ l.ids # {}

NoBroadcast ==
    [channel |-> NoCh, user |-> Anon, include |-> NoIds, exclude |-> NoIds,
     persist |-> FALSE, mid |-> 0, subscribers |-> {}, live |-> FALSE, gen |-> 0, n0 |-> 0,
     visited |-> {}, cur |-> NoConn, sent_count |-> 0, failed_count |-> 0,
     subs_at |-> {}, left |-> {}, failed |-> {}, res |-> "none"]

\* BroadcastMessage and the ws_message built from it
NewBroadcast(msg, mid) ==
    [NoBroadcast EXCEPT !.channel = msg.channel, !.include = msg.include,
                        !.exclude = msg.exclude, !.persist = msg.persist, !.mid = mid]

FilterSubscribers_IncludeIgnored(m, channel, include, exclude) ==
    LET subscribers == Get(m.cs, channel)
    IN  IF Truthy(exclude)
        THEN subscribers \ UNION {Get(m.uc, u) : u \in exclude.ids}
        ELSE subscribers

FilterSubscribers_ExcludeIgnored(m, channel, include, exclude) ==
    LET subscribers == Get(m.cs, channel)
    IN  IF Truthy(include)
        THEN UNION {Get(m.uc, u) \cap subscribers : u \in include.ids}
        ELSE subscribers

FilterSubscribers_IncludeWins(m, channel, include, exclude) ==
    LET subscribers == Get(m.cs, channel)
        kept == IF Truthy(exclude)
                THEN subscribers \ UNION {Get(m.uc, u) : u \in exclude.ids}
                ELSE subscribers
    IN  IF Truthy(include)
        THEN kept \cup UNION {Get(m.uc, u) \cap subscribers : u \in include.ids}
        ELSE kept

\* broadcast_to_channel: the subscribers of the channel, narrowed to the included
\* users' connections, less the excluded users' connections
FilterSubscribers(m, channel, include, exclude) ==
    LET subscribers == Get(m.cs, channel)
        included == IF Truthy(include)
                    THEN UNION {Get(m.uc, u) \cap subscribers : u \in include.ids}
                    ELSE subscribers
    IN  IF Truthy(exclude)
        THEN included \ UNION {Get(m.uc, u) : u \in exclude.ids}
        ELSE included

\* With no filter, "subscribers" is the channel's own set object, not a copy.
Aliased(m, channel, include, exclude) ==
    ~Truthy(include) /\ ~Truthy(exclude) /\ channel \in DOMAIN m.cs

\* The set the fan-out iterates: its own copy, or the channel's set object as it is
\* now (empty once unsubscribe_channel has deleted the key that held it).
Iterated(m, b) ==
    IF b.live
    THEN IF b.channel \in DOMAIN m.cs /\ m.id[b.channel] = b.gen
         THEN m.cs[b.channel] ELSE {}
    ELSE b.subscribers

\* broadcast_to_channel ends with res ("ok", or the exception it raises): the
\* HTTP route answers; the read loop reads on, or goes to its "except Exception".
BroadcastEnd(p, res, b) ==
    /\ bc' = [bc EXCEPT ![p] = [b EXCEPT !.res = res, !.cur = NoConn]]
    /\ IF p \in Admins
       THEN pc' = [pc EXCEPT ![p] = "done"] /\ ep' = ep
       ELSE IF res = "ok"
       THEN pc' = [pc EXCEPT ![p] = "recv"] /\ ep' = ep
       ELSE pc' = [pc EXCEPT ![p] = "err_send"] /\ ep' = [ep EXCEPT ![p].err = res]

\* The next step of "for connection_id in subscribers": a set iterator raises
\* RuntimeError when the set has changed size; ids that are not registered are
\* passed over; the loop body suspends in the send to a registered id.
BroadcastIterate(p, m, b) ==
    LET rem == Iterated(m, b) \ b.visited
        gone == rem \ m.ac
    IN  IF b.live /\ Cardinality(Iterated(m, b)) # b.n0
        THEN BroadcastEnd(p, "RuntimeError", b)
        ELSE IF rem \cap m.ac = {}
        THEN BroadcastEnd(p, "ok", [b EXCEPT !.visited = @ \cup gone,
                                             !.left = @ \cup gone])
        ELSE \E c \in rem \cap m.ac :
                /\ pc' = [pc EXCEPT ![p] = "b_send"]
                /\ bc' = [bc EXCEPT ![p] = [b EXCEPT !.cur = c, !.left = @ \cup gone,
                                                    !.visited = @ \cup gone \cup {c}]]
                /\ ep' = ep

\* broadcast_to_channel from "subscribers = self.channel_subscriptions.get(...)"
\* to its first send
BroadcastFanOut(p, m, b) ==
    LET subs == FilterSubscribers(m, b.channel, b.include, b.exclude)
    IN  BroadcastIterate(p, m,
            [b EXCEPT !.subscribers = subs,
                      !.live = Aliased(m, b.channel, b.include, b.exclude),
                      !.gen = m.id[b.channel],
                      !.n0 = Cardinality(subs),
                      !.subs_at = {c \in m.ac : b.channel \in m.cn[c].subscribed_channels}])

\* _persist_message: redis.lpush returns
BroadcastPushed(p) ==
    /\ pc[p] = "b_lpush"
    /\ IF ~redis_ok
       THEN BroadcastEnd(p, "StoreError", bc[p]) /\ store' = store
       ELSE /\ store' = [store EXCEPT ![bc[p].channel] = <<bc[p].mid>> \o @]
            /\ pc' = [pc EXCEPT ![p] = "b_ltrim"]
            /\ UNCHANGED <<bc, ep>>
    /\ UNCHANGED <<maps, ws, redis_ok, now, sent, dc, hb, next_mid>>

\* _persist_message: redis.ltrim(key, 0, MAX_MESSAGES_PER_CHANNEL - 1) returns
BroadcastTrimmed(p) ==
    /\ pc[p] = "b_ltrim"
    /\ IF ~redis_ok
       THEN BroadcastEnd(p, "StoreError", bc[p]) /\ store' = store
       ELSE /\ store' = [store EXCEPT ![bc[p].channel] =
                            IF Len(@) > MAX_MESSAGES_PER_CHANNEL
                            THEN SubSeq(@, 1, MAX_MESSAGES_PER_CHANNEL) ELSE @]
            /\ pc' = [pc EXCEPT ![p] = "b_meta"]
            /\ UNCHANGED <<bc, ep>>
    /\ UNCHANGED <<maps, ws, redis_ok, now, sent, dc, hb, next_mid>>

\* _persist_message: redis.expire and redis.set return; the filters; the fan-out
BroadcastStored(p) ==
    /\ pc[p] = "b_meta"
    /\ IF ~redis_ok
       THEN BroadcastEnd(p, "StoreError", bc[p])
       ELSE BroadcastFanOut(p, Cur, bc[p])
    /\ UNCHANGED <<maps, ws, redis_ok, now, sent, dc, hb, store, next_mid>>

\* The send to bc[p].cur returns or raises; the counts; the next iteration
BroadcastSent(p) ==
    /\ pc[p] = "b_send"
    /\ LET b == bc[p]
           c == b.cur
       IN  IF ~Open(c)
           THEN /\ BroadcastIterate(p, Cur, [b EXCEPT !.failed_count = @ + 1,
                                                      !.failed = @ \cup {c}])
                /\ UNCHANGED <<maps, sent>>
           ELSE /\ sent' = [sent EXCEPT ![c] = Append(@, MsgFrame("broadcast", b.channel, b.mid))]
                /\ Apply(Touch(Cur, c, now))
                /\ BroadcastIterate(p, Touch(Cur, c, now), [b EXCEPT !.sent_count = @ + 1])
    /\ UNCHANGED <<ws, redis_ok, now, dc, hb, store, next_mid>>

\* POST /broadcast
AdminBroadcast(a, msg) ==
    /\ pc[a] = "idle"
    /\ next_mid' = next_mid + 1
    /\ IF msg.persist
       THEN /\ pc' = [pc EXCEPT ![a] = "b_lpush"]
            /\ bc' = [bc EXCEPT ![a] = NewBroadcast(msg, next_mid)]
            /\ ep' = ep
       ELSE BroadcastFanOut(a, Cur, NewBroadcast(msg, next_mid))
    /\ UNCHANGED <<maps, ws, redis_ok, now, sent, dc, hb, store>>

\* ------------------------------------------------------------- send_to_user

\* send_to_user: "user_connections = self.user_connections.get(user_id, set())"
\* is the user's own set object when the user has a key, a new empty set otherwise
NewSend(m, uid) ==
    [NoBroadcast EXCEPT !.user = uid,
                        !.subscribers = Get(m.uc, uid),
                        !.live = uid \in DOMAIN m.uc,
                        !.gen = IF uid \in DOMAIN m.uc THEN m.id[uid] ELSE 0,
                        !.n0 = Cardinality(Get(m.uc, uid)),
                        !.subs_at = Get(m.uc, uid) \cap m.ac]

\* The set send_to_user iterates: the user's set object as it is now, empty once
\* disconnect has deleted the key that held it.
UserIterated(m, b) ==
    IF b.live
    THEN IF b.user \in DOMAIN m.uc /\ m.id[b.user] = b.gen
         THEN m.uc[b.user] ELSE {}
    ELSE b.subscribers

\* send_to_user ends with res ("ok", or the exception it raises)
SendToUserEnd(p, res, b) ==
    /\ bc' = [bc EXCEPT ![p] = [b EXCEPT !.res = res, !.cur = NoConn]]
    /\ pc' = [pc EXCEPT ![p] = "done"]

\* The next step of "for connection_id in user_connections": a set iterator
\* raises RuntimeError when the set has changed size; ids that are not registered
\* are passed over; the loop body suspends in the send to a registered id.
SendToUserIterate(p, m, b) ==
    LET rem == UserIterated(m, b) \ b.visited
        gone == rem \ m.ac
    IN  IF b.live /\ Cardinality(UserIterated(m, b)) # b.n0
        THEN SendToUserEnd(p, "RuntimeError", b)
        ELSE IF rem \cap m.ac = {}
        THEN SendToUserEnd(p, "ok", [b EXCEPT !.visited = @ \cup gone,
                                              !.left = @ \cup gone])
        ELSE \E c \in rem \cap m.ac :
                /\ pc' = [pc EXCEPT ![p] = "u_send"]
                /\ bc' = [bc EXCEPT ![p] = [b EXCEPT !.cur = c, !.left = @ \cup gone,
                                                    !.visited = @ \cup gone \cup {c}]]

\* POST /send/{target_user_id}: send_to_user up to its first send
AdminSendToUser(a, uid) ==
    /\ pc[a] = "idle"
    /\ SendToUserIterate(a, Cur, NewSend(Cur, uid))
    /\ UNCHANGED <<maps, ws, redis_ok, now, sent, ep, dc, hb, store, next_mid>>

\* The send to bc[p].cur returns or raises; the counts; the next iteration
SendToUserSent(p) ==
    /\ pc[p] = "u_send"
    /\ LET b == bc[p]
           c == b.cur
       IN  IF ~Open(c)
           THEN /\ SendToUserIterate(p, Cur, [b EXCEPT !.failed_count = @ + 1,
                                                       !.failed = @ \cup {c}])
                /\ UNCHANGED <<maps, sent>>
           ELSE /\ sent' = [sent EXCEPT ![c] = Append(@, Frame("message", NoCh))]
                /\ Apply(Touch(Cur, c, now))
                /\ SendToUserIterate(p, Touch(Cur, c, now), [b EXCEPT !.sent_count = @ + 1])
    /\ UNCHANGED <<ws, redis_ok, now, ep, dc, hb, store, next_mid>>

\* ------------------------------------------------------------ the /ws task

\* websocket_endpoint, connect: the limit test, the connection object, then
\* "await websocket.accept()"
EpConnect(e, uid) ==
    /\ pc[e] = "init"
    /\ IF OverLimit(user_connections, uid)
       THEN /\ pc' = [pc EXCEPT ![e] = "rejected"]
            /\ ep' = [ep EXCEPT ![e].user = uid, ![e].err = "HTTP429"]
            /\ UNCHANGED conn
       ELSE /\ pc' = [pc EXCEPT ![e] = "accept"]
            /\ ep' = [ep EXCEPT ![e].user = uid]
            /\ conn' = [conn EXCEPT ![e] = NewConnection(uid, now)]
    /\ UNCHANGED <<active_connections, user_connections, channel_subscriptions, set_id,
                   ws, redis_ok, now, sent, dc, hb>>
    /\ UNCHANGED bvars

\* connect: accept returns; register; "await self._store_connection_info"
EpAccept(e) ==
    /\ pc[e] = "accept"
    /\ ws' = [ws EXCEPT ![e] = "open"]
    /\ Apply(RegisterSync(Cur, e, ep[e].user))
    /\ pc' = [pc EXCEPT ![e] = "conn_ack"]
    /\ UNCHANGED <<redis_ok, now, sent, ep, dc, hb>>
    /\ UNCHANGED bvars

\* websocket_endpoint after connect returned: the endpoint looks its connection
\* up in active_connections; an id removed meanwhile raises KeyError, and the
\* finally clause then calls disconnect with the id
EpLookup(e, m) ==
    IF e \in m.ac
    THEN /\ pc' = [pc EXCEPT ![e] = "recv"]
         /\ Apply(m)
         /\ ep' = [ep EXCEPT ![e].ret = e]
         /\ dc' = dc
    ELSE /\ ep' = [ep EXCEPT ![e].ret = e, ![e].err = "KeyError"]
         /\ DisconnectCall(e, e, m)

\* connect: the store write and the connection_ack; an exception leaves
\* websocket_endpoint with connection_id unbound, so its finally does nothing
EpConnAck(e) ==
    /\ pc[e] = "conn_ack"
    /\ IF ~redis_ok \/ ~Open(e)
       THEN /\ pc' = [pc EXCEPT ![e] = "done"]
            /\ ep' = [ep EXCEPT ![e].err = IF ~redis_ok THEN "StoreError" ELSE "SendError"]
            /\ UNCHANGED <<maps, sent, dc>>
       ELSE /\ sent' = [sent EXCEPT ![e] = Append(@, ConnAck(e))]
            /\ EpLookup(e, Touch(Cur, e, now))
    /\ UNCHANGED <<ws, redis_ok, now, hb>>
    /\ UNCHANGED bvars

\* websocket_endpoint: "finally: await connection_manager.disconnect(connection_id)"
EpFinally(e, m) ==
    /\ DisconnectCall(e, e, m)
    /\ hb' = hb

\* receive_text raises WebSocketDisconnect: break, finally
EpClosed(e) ==
    /\ pc[e] = "recv"
    /\ ws[e] = "closed"
    /\ EpFinally(e, Cur)
    /\ UNCHANGED <<ws, redis_ok, now, sent, ep>>
    /\ UNCHANGED bvars

Authenticated_Any(uid) == TRUE

\* the broadcast frame handler: "if user_id:"
Authenticated(uid) == uid # Anon

\* One frame arrives and is dispatched, up to the handler's first await.
EpRecv(e, f) ==
    /\ pc[e] = "recv"
    /\ ws[e] = "open"
    /\ ep[e].frames < MaxFrames
    /\ LET m == Touch(Cur, e, now)
           raise(err) == /\ pc' = [pc EXCEPT ![e] = "err_send"]
                         /\ ep' = [ep EXCEPT ![e].frames = @ + 1, ![e].err = err]
                         /\ UNCHANGED <<bc, next_mid>>
           goto(l) == /\ pc' = [pc EXCEPT ![e] = l]
                      /\ ep' = [ep EXCEPT ![e].frames = @ + 1, ![e].ch = f.channel,
                                           ![e].cfg = f.cfg]
                      /\ UNCHANGED <<bc, next_mid>>
       IN  CASE f.type = "oversize" -> raise("ValueError") /\ UNCHANGED maps
             [] f.type = "subscribe" ->
                  IF ~Known(Cur, e)
                  THEN raise("ValueError") /\ Apply(m)
                  ELSE goto("s_sub") /\ Apply(SubscribeSync(m, e, f.channel, f.cfg))
             [] f.type = "unsubscribe" ->
                  IF e \notin active_connections
                  THEN goto("recv") /\ Apply(m)
                  ELSE goto("u_unsub") /\ Apply(UnsubscribeSync(m, e, f.channel))
             [] f.type = "ping" -> goto("pong") /\ Apply(m)
             [] f.type = "broadcast" ->
                  IF ~Authenticated(ep[e].user)
                  THEN goto("recv") /\ Apply(m)
                  ELSE /\ Apply(m)
                       /\ pc' = [pc EXCEPT ![e] = "b_lpush"]
                       /\ ep' = [ep EXCEPT ![e].frames = @ + 1, ![e].ch = f.channel,
                                            ![e].cfg = f.cfg]
                       /\ bc' = [bc EXCEPT ![e] =
                                   NewBroadcast([channel |-> f.channel, include |-> NoIds,
                                                 exclude |-> NoIds, persist |-> TRUE],
                                                next_mid)]
                       /\ next_mid' = next_mid + 1
             [] OTHER -> goto("recv") /\ Apply(m)
    /\ UNCHANGED <<ws, redis_ok, now, sent, dc, hb, store>>

\* A handler resumes from its store call and its reply frame: the frame is
\* written, or the exception goes to the loop's "except Exception".
EpReply(e, at, type, next) ==
    /\ pc[e] = at
    /\ IF ~redis_ok \/ ~Open(e)
       THEN /\ pc' = [pc EXCEPT ![e] = "err_send"]
            /\ ep' = [ep EXCEPT ![e].err = IF ~redis_ok THEN "StoreError" ELSE "SendError"]
            /\ UNCHANGED <<sent, conn>>
       ELSE /\ pc' = [pc EXCEPT ![e] = next]
            /\ sent' = [sent EXCEPT ![e] = Append(@, Frame(type, ep[e].ch))]
            /\ conn' = [conn EXCEPT ![e].last_seen = now]
            /\ UNCHANGED ep
    /\ UNCHANGED <<active_connections, user_connections, channel_subscriptions, set_id,
                   ws, redis_ok, now, dc, hb>>
    /\ UNCHANGED bvars

\* subscribe_channel: redis.sadd, then the subscription_ack; the history is
\* replayed when the subscription's config asks for it
EpSubscribed(e) ==
    EpReply(e, "s_sub", "subscription_ack", IF ep[e].cfg THEN "h_lrange" ELSE "recv")

\* json.loads of a stored entry: an entry that is not the JSON text of a message
\* (kept here as the negated message id) raises
Loads(x) == x > 0

SkipBad_Stops(s) == IF s # <<>> /\ ~Loads(s[1]) THEN <<>> ELSE s

RECURSIVE SkipBad(_)
\* _send_channel_history: an entry that fails to load is logged and passed over
SkipBad(s) ==
    IF s # <<>> /\ ~Loads(s[1]) THEN SkipBad(Tail(s)) ELSE s

\* _send_channel_history: redis.lrange(key, 0, HISTORY_WINDOW - 1) returns the
\* newest entries, newest first; they are reversed. A store failure is logged.
EpHistoryRead(e) ==
    /\ pc[e] = "h_lrange"
    /\ IF ~redis_ok
       THEN pc' = [pc EXCEPT ![e] = "recv"] /\ ep' = ep
       ELSE LET list == store[ep[e].ch]
                messages == Reverse(SubSeq(list, 1, Min(Len(list), HISTORY_WINDOW)))
            IN  /\ ep' = [ep EXCEPT ![e].hist = SkipBad(messages), ![e].replay = messages]
                /\ pc' = [pc EXCEPT ![e] = IF SkipBad(messages) = <<>> THEN "h_end"
                                           ELSE "h_send"]
    /\ UNCHANGED <<maps, ws, redis_ok, now, sent, dc, hb>>
    /\ UNCHANGED bvars

\* _send_channel_history: the send of one history message returns, or raises and
\* is logged; the next message
EpHistorySent(e) ==
    /\ pc[e] = "h_send"
    /\ IF Open(e)
       THEN /\ sent' = [sent EXCEPT ![e] = Append(@, MsgFrame("history", ep[e].ch, Head(ep[e].hist)))]
            /\ conn' = [conn EXCEPT ![e].last_seen = now]
       ELSE UNCHANGED <<sent, conn>>
    /\ ep' = [ep EXCEPT ![e].hist = SkipBad(Tail(@))]
    /\ pc' = [pc EXCEPT ![e] = IF SkipBad(Tail(ep[e].hist)) = <<>> THEN "h_end"
                               ELSE "h_send"]
    /\ UNCHANGED <<active_connections, user_connections, channel_subscriptions, set_id,
                   ws, redis_ok, now, dc, hb>>
    /\ UNCHANGED bvars

\* _send_channel_history: the history_end frame; a failure of the send is logged
EpHistoryEnd(e) ==
    /\ pc[e] = "h_end"
    /\ IF Open(e)
       THEN /\ sent' = [sent EXCEPT ![e] = Append(@, Frame("history_end", ep[e].ch))]
            /\ conn' = [conn EXCEPT ![e].last_seen = now]
       ELSE UNCHANGED <<sent, conn>>
    /\ pc' = [pc EXCEPT ![e] = "recv"]
    /\ UNCHANGED <<active_connections, user_connections, channel_subscriptions, set_id,
                   ws, redis_ok, now, ep, dc, hb>>
    /\ UNCHANGED bvars

\* unsubscribe_channel: redis.srem, then the unsubscription_ack
EpUnsubscribed(e) == EpReply(e, "u_unsub", "unsubscription_ack", "recv")

\* the ping handler: the pong frame
EpPong(e) ==
    /\ pc[e] = "pong"
    /\ IF ~Open(e)
       THEN /\ pc' = [pc EXCEPT ![e] = "err_send"]
            /\ ep' = [ep EXCEPT ![e].err = "SendError"]
            /\ UNCHANGED <<sent, conn>>
       ELSE /\ pc' = [pc EXCEPT ![e] = "recv"]
            /\ sent' = [sent EXCEPT ![e] = Append(@, Frame("pong", NoCh))]
            /\ conn' = [conn EXCEPT ![e].last_seen = now]
            /\ UNCHANGED ep
    /\ UNCHANGED <<active_connections, user_connections, channel_subscriptions, set_id,
                   ws, redis_ok, now, dc, hb>>
    /\ UNCHANGED bvars

EpErrSend_Leaves(e) ==
    /\ pc[e] = "err_send"
    /\ EpFinally(e, Cur)
    /\ UNCHANGED <<sent, ep, ws, redis_ok, now>>
    /\ UNCHANGED bvars

\* "except Exception": the error frame; if that send raises too, the exception
\* leaves the loop and the finally clause runs
EpErrSend(e) ==
    /\ pc[e] = "err_send"
    /\ IF ~Open(e)
       THEN /\ EpFinally(e, Cur)
            /\ UNCHANGED <<sent, ep>>
       ELSE /\ pc' = [pc EXCEPT ![e] = "recv"]
            /\ sent' = [sent EXCEPT ![e] = Append(@, Frame("error", NoCh))]
            /\ Apply(Touch(Cur, e, now))
            /\ UNCHANGED <<ep, dc, hb>>
    /\ UNCHANGED <<ws, redis_ok, now>>
    /\ UNCHANGED bvars

\* ------------------------------------------------------------- disconnect

\* disconnect resumes in unsubscribe_channel (redis.srem, the
\* unsubscription_ack), then runs to its next await or to its end
DisconnectUnsubscribed(p) ==
    /\ pc[p] = "d_unsub"
    /\ LET f == dc[p]
       IN  IF ~redis_ok \/ ~Open(f.cid)
           THEN /\ DisconnectEnd(p, IF ~redis_ok THEN "StoreError" ELSE "SendError", Cur)
                /\ UNCHANGED sent
           ELSE /\ sent' = [sent EXCEPT ![f.cid] = Append(@, Frame("unsubscription_ack", f.ch))]
                /\ \E ch \in Pick(f.chans) :
                     LET o == DisconnectLoop(Touch(Cur, f.cid, now), f.cid, f.uid, f.chans, ch)
                     IN  IF o.k = "raise"
                         THEN DisconnectEnd(p, "KeyError", o.m)
                         ELSE /\ Apply(o.m)
                              /\ pc' = [pc EXCEPT ![p] = IF o.k = "unsub" THEN "d_unsub"
                                                         ELSE "d_rminfo"]
                              /\ dc' = [dc EXCEPT ![p].chans = o.rem, ![p].ch = o.ch]
                              /\ hb' = hb
    /\ UNCHANGED <<ws, redis_ok, now, ep>>
    /\ UNCHANGED bvars

\* disconnect resumes from _remove_connection_info and returns
DisconnectRemoved(p) ==
    /\ pc[p] = "d_rminfo"
    /\ DisconnectEnd(p, IF redis_ok THEN "ok" ELSE "StoreError", Cur)
    /\ UNCHANGED <<ws, redis_ok, now, sent, ep>>
    /\ UNCHANGED bvars

\* DELETE /connections/{connection_id}
AdminDisconnect(a, cid) ==
    /\ pc[a] = "idle"
    /\ DisconnectCall(a, cid, Cur)
    /\ UNCHANGED <<ws, redis_ok, now, sent, ep, hb>>
    /\ UNCHANGED bvars

\* -------------------------------------------------------- _heartbeat_loop

\* (current_time - connection.last_seen).total_seconds() > CONNECTION_TIMEOUT
TimedOut(current_time, last_seen) == current_time - last_seen > CONNECTION_TIMEOUT

\* The next step of "for connection_id, connection in
\* self.active_connections.items()": a dict iterator raises RuntimeError when the
\* dict has changed size, or when it has already yielded as many items as the dict
\* had; the loop body then suspends in the heartbeat send.
HBIterate(m, h) ==
    IF Cardinality(m.ac) # h.n0
    THEN HBAbort(m, h, "RuntimeError") /\ dc' = dc
    ELSE IF m.ac \ h.visited = {}
    THEN HBEvict(m, h)
    ELSE IF Cardinality(h.visited) >= h.n0
    THEN HBAbort(m, h, "RuntimeError") /\ dc' = dc
    ELSE \E c \in m.ac \ h.visited :
            /\ Apply(m)
            /\ pc' = [pc EXCEPT ![HB] = "hb_send"]
            /\ hb' = [h EXCEPT !.cur = c, !.visited = @ \cup {c}]
            /\ dc' = dc

\* A sweep starts: current_time = datetime.now(), disconnected_connections = []
HBStart ==
    /\ pc[HB] = "hb_sleep"
    /\ hb.sweeps < MaxSweeps
    /\ HBIterate(Cur, [hb EXCEPT !.ctime = now, !.n0 = Cardinality(active_connections),
                                 !.visited = {}, !.evict = <<>>, !.failed = {},
                                 !.stale = {c \in active_connections :
                                              now - conn[c].last_seen > CONNECTION_TIMEOUT},
                                 !.sweeps = @ + 1, !.last = "running"])
    /\ UNCHANGED <<ws, redis_ok, now, sent, ep>>
    /\ UNCHANGED bvars

HBSent_FailureIgnored ==
    /\ pc[HB] = "hb_send"
    /\ HBIterate(Cur, hb)
    /\ UNCHANGED <<ws, redis_ok, now, sent, ep>>
    /\ UNCHANGED bvars

\* The heartbeat send to hb.cur returns or raises; the timeout test; the next
\* iteration, or the evictions.
HBSent ==
    /\ pc[HB] = "hb_send"
    /\ LET c == hb.cur
       IN  IF ~Open(c)
           THEN /\ HBIterate(Cur, [hb EXCEPT !.evict = Append(@, c),
                                             !.failed = @ \cup {c}])
                /\ UNCHANGED sent
           ELSE /\ sent' = [sent EXCEPT ![c] = Append(@, Frame("heartbeat", NoCh))]
                /\ LET m == Touch(Cur, c, now)
                   IN  HBIterate(m, IF TimedOut(hb.ctime, m.cn[c].last_seen)
                                    THEN [hb EXCEPT !.evict = Append(@, c)]
                                    ELSE hb)
    /\ UNCHANGED <<ws, redis_ok, now, ep>>
    /\ UNCHANGED bvars

Init ==
    /\ active_connections = {}
    /\ user_connections = EmptyMap
    /\ channel_subscriptions = EmptyMap
    /\ conn = [c \in Conns |-> NewConnection(Anon, 0)]
    /\ ws = [c \in Conns |-> "new"]
    /\ redis_ok = TRUE
    /\ now = 0
    /\ sent = [c \in Conns |-> <<>>]
    /\ pc = [p \in Procs |-> IF p = HB THEN "hb_sleep"
                             ELSE IF p \in Conns THEN "init" ELSE "idle"]
    /\ ep = [c \in Conns |-> [user |-> Anon, frames |-> 0, ch |-> NoCh, cfg |-> FALSE,
                              hist |-> <<>>, replay |-> <<>>, err |-> "none",
                              ret |-> NoConn]]
    /\ dc = [p \in Procs |-> NoCall]
    /\ bc = [p \in Procs |-> NoBroadcast]
    /\ set_id = [k \in Channels \cup Users |-> 0]
    /\ store = [ch \in Channels |-> <<>>]
    /\ next_mid = 1
    /\ hb = [ctime |-> 0, n0 |-> 0, visited |-> {}, cur |-> NoConn, evict |-> <<>>,
             stale |-> {}, failed |-> {}, sweeps |-> 0, last |-> "none"]

\* ------------------------------------------------------------ environment

\* The client closes its socket.
ClientClose(e) ==
    /\ ws[e] = "open"
    /\ pc[e] # "done"
    /\ ws' = [ws EXCEPT ![e] = "closed"]
    /\ UNCHANGED <<maps, redis_ok, now, sent, pc, ep, dc, hb>>
    /\ UNCHANGED bvars

\* Time passes.
Tick ==
    /\ now < MaxTime
    /\ now' = now + 1
    /\ UNCHANGED <<maps, ws, redis_ok, sent, pc, ep, dc, hb>>
    /\ UNCHANGED bvars

\* Another writer of the store damages one stored message of a channel.
StoreCorrupt(ch) ==
    /\ \E i \in 1..Len(store[ch]) :
          /\ Loads(store[ch][i])
          /\ store' = [store EXCEPT ![ch][i] = 0 - @]
    /\ UNCHANGED <<maps, ws, redis_ok, now, sent, pc, ep, dc, hb, bc, next_mid>>

\* _heartbeat_loop is "while True": after its sleep the loop sweeps again. The
\* sweeps counted so far are forgotten while a registered connection has a
\* closed socket; a sweep that finds every socket open only sends heartbeats.
HBRestart ==
    /\ pc[HB] = "hb_sleep"
    /\ hb.sweeps >= MaxSweeps
    /\ \E c \in active_connections : ws[c] = "closed"
    /\ hb' = [hb EXCEPT !.sweeps = 0]
    /\ UNCHANGED <<maps, ws, redis_ok, now, sent, pc, ep, dc>>
    /\ UNCHANGED bvars

\* The external store stops answering: every call to it raises from now on.
StoreDown ==
    /\ redis_ok
    /\ redis_ok' = FALSE
    /\ UNCHANGED <<maps, ws, now, sent, pc, ep, dc, hb>>
    /\ UNCHANGED bvars

\* The external store answers again.
StoreUp ==
    /\ ~redis_ok
    /\ redis_ok' = TRUE
    /\ UNCHANGED <<maps, ws, now, sent, pc, ep, dc, hb>>
    /\ UNCHANGED bvars

\* ---------------------------------------------------------- specifications

RegConns == 2          \* clients of Spec and SpecRace
AdmitConns == 3        \* clients of SpecAdmit
SweepConns == 1        \* clients of SpecSweep
OrderConns == 1        \* clients of SpecOrder
HistConns == 1         \* clients of SpecHistory
BcastConns == 3        \* clients of SpecBcast

SubFrames == [type : {"subscribe"}, channel : Channels, cfg : {FALSE}]
UnsubFrames == [type : {"unsubscribe"}, channel : Channels, cfg : {FALSE}]

Connecting(E, U) ==
    \/ \E e \in E, uid \in U : EpConnect(e, uid)
    \/ \E e \in E : EpAccept(e)
    \/ \E e \in E : EpConnAck(e)

Reading(E, F) ==
    \/ \E e \in E, f \in F : EpRecv(e, f)
    \/ \E e \in E : EpSubscribed(e)
    \/ \E e \in E : EpErrSend(e)

Leaving(E) ==
    \/ \E e \in E : ClientClose(e)
    \/ \E e \in E : EpClosed(e)

Disconnecting(P) ==
    \/ \E p \in P : DisconnectUnsubscribed(p)
    \/ \E p \in P : DisconnectRemoved(p)

\* Clients that connect, subscribe, unsubscribe and leave, and one
\* administrative request that disconnects one of them.
Next ==
    \/ Connecting(1..RegConns, {"u1"})
    \/ Reading(1..RegConns, SubFrames \cup UnsubFrames)
    \/ \E e \in 1..RegConns : EpUnsubscribed(e)
    \/ Leaving(1..RegConns)
    \/ Disconnecting(Procs)
    \/ \E c \in 1..RegConns : AdminDisconnect(NumConns + 1, c)

Spec == Init /\ [][Next]_vars

\* Clients of one user and anonymous clients that connect and leave.
NextAdmit ==
    \/ Connecting(1..AdmitConns, {"u1", Anon})
    \/ Leaving(1..AdmitConns)
    \/ \E e \in 1..AdmitConns : DisconnectRemoved(e)

SpecAdmit == Init /\ [][NextAdmit]_vars

\* One client that subscribes, and two administrative requests that disconnect it;
\* the client never closes its socket.
NextRace ==
    \/ Connecting({1}, {"u1"})
    \/ Reading({1}, SubFrames)
    \/ Disconnecting(Admins)
    \/ \E a \in Admins : AdminDisconnect(a, 1)

SpecRace == Init /\ [][NextRace]_vars

\* Clients that connect, subscribe and stay, the clock, and the heartbeat loop;
\* no client closes its socket, so every send succeeds.
NextTimeout ==
    \/ Connecting(1..RegConns, {"u1"})
    \/ \E e \in 1..RegConns, f \in SubFrames : EpRecv(e, f)
    \/ \E e \in 1..RegConns : EpSubscribed(e)
    \/ Tick
    \/ HBStart
    \/ HBSent

SpecTimeout == Init /\ [][NextTimeout]_vars

\* A client that connects, subscribes and leaves, and the heartbeat loop.
NextSweep ==
    \/ Connecting(1..SweepConns, {"u1"})
    \/ Reading(1..SweepConns, SubFrames)
    \/ Leaving(1..SweepConns)
    \/ Disconnecting(0..SweepConns)
    \/ HBStart
    \/ HBSent

SpecSweep == Init /\ [][NextSweep]_vars

\* POST /broadcast bodies that exclude users and include none, not persisted
ExcludeMsgs ==
    [channel : {"ch1"}, include : {NoIds, Ids({})},
     exclude : {Ids({"u2"}), Ids({"u1", "u2"})}, persist : {FALSE}]

\* A client of each user and an anonymous client that subscribe to one channel
\* and leave, and one administrative broadcast that excludes users.
NextBcast ==
    \/ Connecting({1}, {"u1"})
    \/ Connecting({2}, {"u2"})
    \/ Connecting({BcastConns}, {Anon})
    \/ \E e \in 1..BcastConns : EpRecv(e, [type |-> "subscribe", channel |-> "ch1", cfg |-> FALSE])
    \/ \E e \in 1..BcastConns : EpSubscribed(e)
    \/ Leaving(1..BcastConns)
    \/ Disconnecting(1..BcastConns)
    \/ \E msg \in ExcludeMsgs : AdminBroadcast(NumConns + 1, msg)
    \/ BroadcastSent(NumConns + 1)

SpecBcast == Init /\ [][NextBcast]_vars

\* POST /broadcast bodies that include users and exclude none, not persisted
IncludeMsgs ==
    [channel : {"ch1"}, include : {Ids({"u1"}), Ids({"u2"}), Ids({"u1", "u2"})},
     exclude : {NoIds, Ids({})}, persist : {FALSE}]

\* A client of each user and an anonymous client that subscribe to one channel
\* and leave, and one administrative broadcast that includes users.
NextInclude ==
    \/ Connecting({1}, {"u1"})
    \/ Connecting({2}, {"u2"})
    \/ Connecting({BcastConns}, {Anon})
    \/ \E e \in 1..BcastConns : EpRecv(e, [type |-> "subscribe", channel |-> "ch1", cfg |-> FALSE])
    \/ \E e \in 1..BcastConns : EpSubscribed(e)
    \/ Leaving(1..BcastConns)
    \/ Disconnecting(1..BcastConns)
    \/ \E msg \in IncludeMsgs : AdminBroadcast(NumConns + 1, msg)
    \/ BroadcastSent(NumConns + 1)

SpecInclude == Init /\ [][NextInclude]_vars

\* POST /broadcast bodies on one channel, not persisted: to all subscribers (the
\* fan-out iterates the channel's own set) or to those of u1 (it iterates a copy)
FanOutMsgs ==
    [channel : {"ch1"}, include : {NoIds, Ids({"u1"})}, exclude : {NoIds},
     persist : {FALSE}]

\* Clients of one user that subscribe to and unsubscribe from one channel and
\* leave, and one administrative broadcast on that channel.
NextFanOut ==
    \/ Connecting(1..RegConns, {"u1"})
    \/ \E e \in 1..RegConns, t \in {"subscribe", "unsubscribe"} :
          EpRecv(e, [type |-> t, channel |-> "ch1", cfg |-> FALSE])
    \/ \E e \in 1..RegConns : EpSubscribed(e)
    \/ \E e \in 1..RegConns : EpUnsubscribed(e)
    \/ \E e \in 1..RegConns : EpErrSend(e)
    \/ Leaving(1..RegConns)
    \/ Disconnecting(1..RegConns)
    \/ \E msg \in FanOutMsgs : AdminBroadcast(NumConns + 1, msg)
    \/ BroadcastSent(NumConns + 1)

SpecFanOut == Init /\ [][NextFanOut]_vars

\* POST /broadcast bodies on one channel that are persisted
PersistMsgs ==
    [channel : {"ch1"}, include : {NoIds, Ids({"u1"})}, exclude : {NoIds},
     persist : {TRUE}]

Persisting(P) ==
    \/ \E p \in P : BroadcastPushed(p)
    \/ \E p \in P : BroadcastTrimmed(p)
    \/ \E p \in P : BroadcastStored(p)
    \/ \E p \in P : BroadcastSent(p)

\* Clients of one user that subscribe to one channel and stay, a store that
\* fails and recovers, and one administrative broadcast that is persisted.
NextPersist ==
    \/ Connecting(1..RegConns, {"u1"})
    \/ Reading(1..RegConns, {[type |-> "subscribe", channel |-> "ch1", cfg |-> FALSE]})
    \/ StoreDown
    \/ StoreUp
    \/ \E msg \in PersistMsgs : AdminBroadcast(NumConns + 1, msg)
    \/ Persisting({NumConns + 1})

SpecPersist == Init /\ [][NextPersist]_vars

\* POST /broadcast bodies on one channel to all its subscribers, persisted or not
OrderMsgs ==
    [channel : {"ch1"}, include : {NoIds}, exclude : {NoIds}, persist : BOOLEAN]

\* A client that subscribes to one channel and stays, and two administrative
\* broadcasts on that channel; the store answers every call.
NextOrder ==
    \/ Connecting(1..OrderConns, {"u1"})
    \/ \E e \in 1..OrderConns : EpRecv(e, [type |-> "subscribe", channel |-> "ch1", cfg |-> FALSE])
    \/ \E e \in 1..OrderConns : EpSubscribed(e)
    \/ \E a \in Admins, msg \in OrderMsgs : AdminBroadcast(a, msg)
    \/ Persisting(Admins)

SpecOrder == Init /\ [][NextOrder]_vars

\* Replaying(E): the history replay of _send_channel_history
Replaying(E) ==
    \/ \E e \in E : EpHistoryRead(e)
    \/ \E e \in E : EpHistorySent(e)
    \/ \E e \in E : EpHistoryEnd(e)

\* A client that sends a broadcast frame for one channel, subscribes to it and
\* asks for its history, and two administrative broadcasts on the channel; every
\* broadcast is persisted.
NextHistory ==
    \/ Connecting(1..HistConns, {"u1"})
    \/ \E e \in 1..HistConns :
          EpRecv(e, [type |-> "subscribe", channel |-> "ch1", cfg |-> TRUE])
    \/ \E e \in 1..HistConns :
          EpRecv(e, [type |-> "broadcast", channel |-> "ch1", cfg |-> FALSE])
    \/ \E e \in 1..HistConns : EpSubscribed(e)
    \/ Replaying(1..HistConns)
    \/ \E a \in Admins : AdminBroadcast(a, [channel |-> "ch1", include |-> NoIds,
                                           exclude |-> NoIds, persist |-> TRUE])
    \/ Persisting(Admins \cup (1..HistConns))

SpecHistory == Init /\ [][NextHistory]_vars

\* A client that sends broadcast frames for one channel, two administrative
\* broadcasts on the channel, all persisted, and a store that fails and recovers.
NextCap ==
    \/ Connecting(1..HistConns, {"u1"})
    \/ \E e \in 1..HistConns :
          EpRecv(e, [type |-> "broadcast", channel |-> "ch1", cfg |-> FALSE])
    \/ \E e \in 1..HistConns : EpErrSend(e)
    \/ \E a \in Admins : AdminBroadcast(a, [channel |-> "ch1", include |-> NoIds,
                                           exclude |-> NoIds, persist |-> TRUE])
    \/ \E p \in Admins \cup (1..HistConns) : BroadcastPushed(p)
    \/ \E p \in Admins \cup (1..HistConns) : BroadcastTrimmed(p)
    \/ \E p \in Admins \cup (1..HistConns) : BroadcastStored(p)
    \/ StoreDown
    \/ StoreUp

SpecCap == Init /\ [][NextCap]_vars

\* A client of u1 that subscribes to one channel, and a client, anonymous or of
\* u2, that sends broadcast frames for the channel.
NextAnon ==
    \/ Connecting({1}, {"u1"})
    \/ Connecting({RegConns}, {Anon, "u2"})
    \/ EpRecv(1, [type |-> "subscribe", channel |-> "ch1", cfg |-> FALSE])
    \/ EpSubscribed(1)
    \/ EpRecv(RegConns, [type |-> "broadcast", channel |-> "ch1", cfg |-> FALSE])
    \/ Persisting({RegConns})

SpecAnon == Init /\ [][NextAnon]_vars

\* A frame longer than MAX_MESSAGE_SIZE bytes
Oversize == [type |-> "oversize", channel |-> NoCh, cfg |-> FALSE]

\* Clients of one user that subscribe, send oversized frames and leave.
NextOversize ==
    \/ Connecting(1..RegConns, {"u1"})
    \/ Reading(1..RegConns, SubFrames \cup {Oversize})
    \/ Leaving(1..RegConns)
    \/ Disconnecting(1..RegConns)

SpecOversize == Init /\ [][NextOversize]_vars

\* A ping frame
Ping == [type |-> "ping", channel |-> NoCh, cfg |-> FALSE]

\* A client that subscribes, unsubscribes, pings, sends oversized frames and
\* leaves, an administrative request that disconnects it, and a store that fails
\* and recovers.
NextLoop ==
    \/ Connecting(1..SweepConns, {"u1"})
    \/ Reading(1..SweepConns, SubFrames \cup UnsubFrames \cup {Oversize, Ping})
    \/ \E e \in 1..SweepConns : EpUnsubscribed(e)
    \/ \E e \in 1..SweepConns : EpPong(e)
    \/ Leaving(1..SweepConns)
    \/ Disconnecting((1..SweepConns) \cup {NumConns + 1})
    \/ \E c \in 1..SweepConns : AdminDisconnect(NumConns + 1, c)
    \/ StoreDown
    \/ StoreUp

SpecLoop == Init /\ [][NextLoop]_vars

\* A client of one user that subscribes, a client of either user and an
\* anonymous client; the first two may leave, and an administrative request
\* disconnects any of the three.
NextUsers ==
    \/ Connecting({1}, {"u1"})
    \/ Connecting({RegConns}, Users)
    \/ Connecting({AdmitConns}, {Anon})
    \/ Reading({1}, {f \in SubFrames : f.channel = "ch1"})
    \/ Leaving(1..RegConns)
    \/ Disconnecting(Procs)
    \/ \E c \in 1..AdmitConns : AdminDisconnect(NumConns + 1, c)

SpecUsers == Init /\ [][NextUsers]_vars

ResubFrames == [type : {"subscribe"}, channel : {"ch1"}, cfg : BOOLEAN]

\* Clients that subscribe to one channel again and again, with and without a
\* request for its history, and leave; nothing is ever broadcast, so the
\* history is empty.
NextResub ==
    \/ Connecting(1..RegConns, {"u1"})
    \/ Reading(1..RegConns, ResubFrames)
    \/ \E e \in 1..RegConns : EpHistoryRead(e)
    \/ \E e \in 1..RegConns : EpHistoryEnd(e)
    \/ Leaving(1..RegConns)
    \/ Disconnecting(1..RegConns)

SpecResub == Init /\ [][NextResub]_vars

\* A client that subscribes and unsubscribes, and a client that only ever sends
\* unsubscribe frames; both may leave.
NextUnsub ==
    \/ Connecting(1..RegConns, {"u1"})
    \/ Reading({1}, SubFrames \cup UnsubFrames)
    \/ \E f \in UnsubFrames : EpRecv(RegConns, f)
    \/ \E e \in 1..RegConns : EpUnsubscribed(e)
    \/ Leaving(1..RegConns)
    \/ Disconnecting(1..RegConns)

SpecUnsub == Init /\ [][NextUnsub]_vars

\* Clients of one user that connect and leave, and administrative requests that
\* send a message to the user.
NextSend ==
    \/ Connecting(1..RegConns, {"u1"})
    \/ Leaving(1..RegConns)
    \/ \E e \in 1..RegConns : DisconnectRemoved(e)
    \/ \E a \in Admins : AdminSendToUser(a, "u1")
    \/ \E a \in Admins : SendToUserSent(a)

SpecSend == Init /\ [][NextSend]_vars

\* POST /broadcast bodies with an include list, empty or not, and with or
\* without an exclude list that names a listed user; not persisted
FilterMsgs ==
    [channel : {"ch1"}, include : {Ids({}), Ids({"u1"}), Ids({"u1", "u2"})},
     exclude : {NoIds, Ids({"u1"})}, persist : {FALSE}]

\* A client of each user and an anonymous client that subscribe to one channel
\* and leave, and one administrative broadcast with an include list.
NextFilter ==
    \/ Connecting({1}, {"u1"})
    \/ Connecting({2}, {"u2"})
    \/ Connecting({BcastConns}, {Anon})
    \/ \E e \in 1..BcastConns : EpRecv(e, [type |-> "subscribe", channel |-> "ch1", cfg |-> FALSE])
    \/ \E e \in 1..BcastConns : EpSubscribed(e)
    \/ Leaving(1..BcastConns)
    \/ Disconnecting(1..BcastConns)
    \/ \E msg \in FilterMsgs : AdminBroadcast(NumConns + 1, msg)
    \/ BroadcastSent(NumConns + 1)

SpecFilter == Init /\ [][NextFilter]_vars

\* A client that subscribes to one channel and asks for its history, and may
\* close its socket; two administrative broadcasts on the channel, persisted;
\* and a writer that damages stored messages.
NextReplay ==
    \/ Connecting(1..HistConns, {"u1"})
    \/ \E e \in 1..HistConns :
          EpRecv(e, [type |-> "subscribe", channel |-> "ch1", cfg |-> TRUE])
    \/ \E e \in 1..HistConns : EpSubscribed(e)
    \/ \E e \in 1..HistConns : EpErrSend(e)
    \/ Replaying(1..HistConns)
    \/ Leaving(1..HistConns)
    \/ Disconnecting(1..HistConns)
    \/ \E a \in Admins : AdminBroadcast(a, [channel |-> "ch1", include |-> NoIds,
                                           exclude |-> NoIds, persist |-> TRUE])
    \/ Persisting(Admins)
    \/ StoreCorrupt("ch1")

SpecReplay == Init /\ [][NextReplay]_vars

\* Clients of one user that connect and leave, and the heartbeat loop.
NextBeat ==
    \/ Connecting(1..RegConns, {"u1"})
    \/ Leaving(1..RegConns)
    \/ \E p \in 0..RegConns : DisconnectRemoved(p)
    \/ HBStart
    \/ HBSent

SpecBeat == Init /\ [][NextBeat]_vars

\* A client that subscribes and closes its socket, its endpoint, a heartbeat
\* loop that sweeps again and again, and a store that fails and recovers.
NextLive ==
    \/ Connecting(1..SweepConns, {"u1"})
    \/ Reading(1..SweepConns, SubFrames)
    \/ Leaving(1..SweepConns)
    \/ Disconnecting(0..SweepConns)
    \/ HBStart
    \/ HBSent
    \/ HBRestart
    \/ StoreDown
    \/ StoreUp

\* The heartbeat task is resumed whenever it can go on: after its sleep, after a
\* send, and after the awaits of the disconnect it has invoked.
FairBeat ==
    /\ WF_vars(HBStart)
    /\ WF_vars(HBSent)
    /\ WF_vars(HBRestart)
    /\ WF_vars(DisconnectUnsubscribed(HB))
    /\ WF_vars(DisconnectRemoved(HB))

SpecLive == Init /\ [][NextLive]_vars /\ FairBeat

\* Clients of one user that subscribe to one channel, the first of which may
\* unsubscribe and leave; an administrative request that disconnects a client,
\* and one that broadcasts on the channel or sends to the user.
NextFrame ==
    \/ Connecting(1..RegConns, {"u1"})
    \/ Reading(1..RegConns, {[type |-> "subscribe", channel |-> "ch1", cfg |-> FALSE]})
    \/ EpRecv(1, [type |-> "unsubscribe", channel |-> "ch1", cfg |-> FALSE])
    \/ EpUnsubscribed(1)
    \/ Leaving({1})
    \/ Disconnecting({1, NumConns + 1})
    \/ \E c \in 1..RegConns : AdminDisconnect(NumConns + 1, c)
    \/ AdminBroadcast(NumConns + NumAdmins, [channel |-> "ch1", include |-> NoIds,
                                             exclude |-> NoIds, persist |-> FALSE])
    \/ BroadcastSent(NumConns + NumAdmins)
    \/ AdminSendToUser(NumConns + NumAdmins, "u1")
    \/ SendToUserSent(NumConns + NumAdmins)

SpecFrame == Init /\ [][NextFrame]_vars

\* ------------------------------------------------------------------ claims

\* c is in no map of the manager.
Absent(c) ==
    /\ c \notin active_connections
    /\ \A u \in DOMAIN user_connections : c \notin user_connections[u]
    /\ \A ch \in DOMAIN channel_subscriptions : c \notin channel_subscriptions[ch]

\* No task is inside an operation of the manager.
Quiescent ==
    \A p \in Procs : pc[p] \in {"init", "recv", "rejected", "done", "idle", "hb_sleep"}

\* C1: in every reachable state, for every registered connection c and every
\* channel ch, c is in channel_subscriptions[ch] exactly when ch is in
\* c.subscribed_channels.
C1_Bidirectional ==
    \A c \in active_connections, ch \in Channels :
        (c \in Get(channel_subscriptions, ch)) <=> (ch \in conn[c].subscribed_channels)

\* C1 witness: a disconnect is suspended in an unsubscribe of a connection that
\* still holds another subscription, while a second connection is subscribed.
C1_Witness ==
    \E p \in Procs, c \in active_connections, c2 \in active_connections :
        /\ pc[p] = "d_unsub" /\ dc[p].cid = c /\ c2 # c
        /\ conn[c].subscribed_channels # {}
        /\ conn[c2].subscribed_channels # {}

\* C2 (as claimed): no user ever has more than MAX_CONNECTIONS_PER_USER
\* connection ids in user_connections.
C2_UserCap ==
    \A u \in DOMAIN user_connections :
        Cardinality(user_connections[u]) <= MAX_CONNECTIONS_PER_USER

\* C3: a connect for a user who already has MAX_CONNECTIONS_PER_USER registered
\* connections fails with the capacity error and changes none of the three maps.
C3_RejectAtCap ==
    [][\A e \in Conns :
         (/\ pc[e] = "init" /\ pc'[e] # "init"
          /\ ep'[e].user \in Users
          /\ Cardinality(Get(user_connections, ep'[e].user)) >= MAX_CONNECTIONS_PER_USER)
         => /\ pc'[e] = "rejected"
            /\ ep'[e].err = "HTTP429"
            /\ UNCHANGED <<active_connections, user_connections, channel_subscriptions>>
      ]_vars

\* C3 witness: a connect was rejected while its user held the full number of
\* connections.
C3_Witness ==
    \E e \in Conns :
        /\ pc[e] = "rejected"
        /\ Cardinality(Get(user_connections, ep[e].user)) = MAX_CONNECTIONS_PER_USER

\* C4 (as claimed): every disconnect of a registered connection returns without
\* raising, and the connection is then in none of the maps.
C4_DisconnectCompletes ==
    \A p \in Procs :
        dc[p].res \notin {"none", "noop"} => (dc[p].res = "ok" /\ Absent(dc[p].cid))

\* C5 (as claimed): when two disconnect calls on the same registered id have run
\* concurrently and both have ended, neither has raised and the id is in none of
\* the maps.
C5_ConcurrentDisconnects ==
    \A p \in Procs, q \in Procs :
        (/\ p # q /\ dc[p].cid = dc[q].cid
         /\ dc[p].overlap /\ dc[q].overlap
         /\ dc[p].res # "none" /\ dc[q].res # "none")
        => /\ dc[p].res \in {"ok", "noop"}
           /\ dc[q].res \in {"ok", "noop"}
           /\ Absent(dc[p].cid)

\* C6: a disconnect of an id that is not registered returns without error, leaves
\* the maps unchanged and sends no frame (the call of an administrative request,
\* and the call in the endpoint's finally clause).
C6_UnknownIdNoop ==
    [][\A p \in Procs \ {HB} :
         LET called == \/ p \in Admins /\ pc[p] = "idle" /\ pc'[p] # "idle"
                       \/ /\ p \in Conns /\ pc[p] \in {"recv", "err_send"}
                          /\ pc'[p] \in {"d_unsub", "d_rminfo", "done"}
         IN  (called /\ dc'[p].cid \notin active_connections)
             => /\ pc'[p] = "done"
                /\ dc'[p].res = "noop"
                /\ UNCHANGED <<active_connections, user_connections,
                               channel_subscriptions, conn, sent>>
      ]_vars

\* C6 witness: a connection was disconnected by an administrative request, and the
\* call in its endpoint's finally clause then returned at once.
C6_Witness ==
    \E a \in Admins, e \in Conns :
        /\ dc[a].res = "ok" /\ dc[a].cid = e
        /\ dc[e].res = "noop" /\ pc[e] = "done"

\* C7 (as claimed): in every quiescent state every id in channel_subscriptions is
\* a key of active_connections.
C7_NoStaleSubscriber ==
    Quiescent =>
        \A ch \in DOMAIN channel_subscriptions :
            channel_subscriptions[ch] \subseteq active_connections

\* C8 (as claimed): a connection whose last_seen was older than CONNECTION_TIMEOUT
\* when a sweep started is, once that sweep has run to its end, not registered and
\* in no channel's subscriber set.
C8_StaleEvicted ==
    (pc[HB] = "hb_sleep" /\ hb.last = "done") =>
        \A c \in hb.stale :
            /\ c \notin active_connections
            /\ \A ch \in DOMAIN channel_subscriptions : c \notin channel_subscriptions[ch]

\* C9 (as claimed): a connection whose heartbeat send failed in a sweep is not in
\* active_connections when that sweep has ended.
C9_FailedEvicted ==
    (pc[HB] = "hb_sleep" /\ hb.last \notin {"none", "running"}) =>
        hb.failed \cap active_connections = {}

\* The connections that hold the message of broadcast p in their outbound log
Delivered(p) ==
    {c \in Conns : \E i \in 1..Len(sent[c]) :
        sent[c][i] = MsgFrame("broadcast", bc[p].channel, bc[p].mid)}

\* The connections subscribed to the channel of broadcast p when it read the
\* channel, whose owner is not an excluded user
Targets(p) ==
    {c \in bc[p].subs_at : conn[c].user_id \notin bc[p].exclude.ids}

\* C10: a finished broadcast that excludes users and includes none has delivered
\* only to connections that were subscribed to the channel and are not owned by an
\* excluded user, and reports as sent_count the number it delivered to; when no
\* send failed and no target was disconnected meanwhile, it has delivered to all
\* of them and sent_count is their number.
C10_ExcludeDelivery ==
    \A p \in Admins :
        (bc[p].res = "ok" /\ Truthy(bc[p].exclude) /\ ~Truthy(bc[p].include)) =>
            /\ Delivered(p) \subseteq Targets(p)
            /\ bc[p].sent_count = Cardinality(Delivered(p))
            /\ (bc[p].failed_count = 0 /\ bc[p].left = {}) =>
                    /\ Delivered(p) = Targets(p)
                    /\ bc[p].sent_count = Cardinality(Targets(p))

\* Three subscribers, the owner of one excluded: delivered to the other two.
C10_Witness ==
    \E p \in Admins :
        /\ bc[p].res = "ok"
        /\ bc[p].exclude = Ids({"u2"})
        /\ bc[p].include = NoIds
        /\ Cardinality(bc[p].subs_at) = 3
        /\ Cardinality(Delivered(p)) = 2
        /\ bc[p].sent_count = 2
        /\ bc[p].failed_count = 0
        /\ \E c \in bc[p].subs_at : conn[c].user_id = "u2" /\ c \notin Delivered(p)

\* The connections subscribed to the channel of broadcast p when it read the
\* channel, whose owner is a listed user
Listed(p) ==
    {c \in bc[p].subs_at : conn[c].user_id \in bc[p].include.ids}

\* C11: a finished broadcast with a non-empty include list has delivered only to
\* connections that were subscribed to the channel and are owned by a listed
\* user, and reports as sent_count the number it delivered to; when no listed
\* user has a subscribed connection it has delivered to nobody and sent_count
\* is 0, whatever other subscribers the channel has.
C11_IncludeDelivery ==
    \A p \in Admins :
        (bc[p].res = "ok" /\ Truthy(bc[p].include) /\ ~Truthy(bc[p].exclude)) =>
            /\ Delivered(p) \subseteq Listed(p)
            /\ bc[p].sent_count = Cardinality(Delivered(p))
            /\ Listed(p) = {} => (Delivered(p) = {} /\ bc[p].sent_count = 0)
            /\ (bc[p].failed_count = 0 /\ bc[p].left = {}) => Delivered(p) = Listed(p)

\* The channel has subscribers, none owned by the listed user: nobody receives.
C11_Witness ==
    \E p \in Admins :
        /\ bc[p].res = "ok"
        /\ bc[p].include = Ids({"u2"})
        /\ bc[p].exclude = NoIds
        /\ Cardinality(bc[p].subs_at) = 2
        /\ Listed(p) = {}
        /\ bc[p].sent_count = 0
        /\ \A c \in Conns : \A i \in 1..Len(sent[c]) : sent[c][i].type # "broadcast"

\* The targets of broadcast p that its loop has yet to reach and that are registered
Pending(p) == (Iterated(Cur, bc[p]) \ bc[p].visited) \cap active_connections

\* C12: a step of a fan-out in which the send to the current target fails adds one
\* to failed_count and nothing to sent_count, does not end the call with an
\* exception, and goes on to the next send while registered targets remain; a call
\* that has returned reports sent_count + failed_count equal to the number of
\* targets that were registered when their turn came.
C12_FailureCounted ==
    [][\A p \in Admins :
          (pc[p] = "b_send" /\ bc'[p] # bc[p] /\ ~Open(bc[p].cur)) =>
              /\ bc'[p].failed_count = bc[p].failed_count + 1
              /\ bc'[p].sent_count = bc[p].sent_count
              /\ bc'[p].res \in {"none", "ok"}
              /\ Pending(p) # {} => pc'[p] = "b_send"
              /\ bc'[p].res = "ok" =>
                    bc'[p].sent_count + bc'[p].failed_count
                        = Cardinality(bc'[p].visited \ bc'[p].left)]_vars

\* C13: a broadcast that has ended has returned its counts and raised nothing,
\* whatever connections subscribed to, unsubscribed from or left the channel while
\* it was suspended in a send; a connection that had left the registry when its
\* turn came received nothing and is counted neither as sent nor as failed.
C13_MidBroadcastChange ==
    \A p \in Admins :
        bc[p].res # "none" =>
            /\ bc[p].res = "ok"
            /\ bc[p].left \cap (Delivered(p) \cup bc[p].failed) = {}
            /\ bc[p].sent_count = Cardinality(Delivered(p))
            /\ bc[p].failed_count = Cardinality(bc[p].failed)

\* C14: a persisted broadcast that has ended has returned its counts and raised
\* nothing, also when the store failed on the push, the trim, the expire or the
\* last-activity write, and every subscriber whose send succeeded holds the message.
C14_PersistBestEffort ==
    \A p \in Admins :
        (bc[p].persist /\ bc[p].res # "none") =>
            /\ bc[p].res = "ok"
            /\ bc[p].sent_count = Cardinality(Delivered(p))
            /\ (bc[p].failed_count = 0 /\ bc[p].left = {}) =>
                   Delivered(p) = {c \in bc[p].subs_at :
                                      Truthy(bc[p].include) => conn[c].user_id \in bc[p].include.ids}

\* Connection c holds the message of a broadcast on ch issued after message mid
\* (message ids are given out in the order the calls are issued).
HoldsLater(c, ch, mid) ==
    \E i \in 1..Len(sent[c]) :
        /\ sent[c][i].type = "broadcast"
        /\ sent[c][i].channel = ch
        /\ sent[c][i].mid > mid

\* C15: a broadcast never begins its send to an open connection that already
\* holds the message of a broadcast issued after it on the same channel (a
\* connection that receives both messages would receive them out of issue order).
C15_IssueOrder ==
    [][\A p \in Admins, c \in Conns :
          (pc'[p] = "b_send" /\ bc'[p].cur = c /\ (pc[p] # "b_send" \/ bc[p].cur # c)) =>
              ~(Open(c) /\ HoldsLater(c, bc'[p].channel, bc'[p].mid))]_vars

\* The frames connection e has received that belong to subscribing to ch: the
\* acknowledgment, the history messages and the end marker
Control(e, ch) ==
    SelectSeq(sent[e], LAMBDA f : /\ f.channel = ch
                                  /\ f.type \in {"subscription_ack", "history", "history_end"})

\* The last n elements of a sequence that has at least n
Last(s, n) == SubSeq(s, Len(s) - n + 1, Len(s))

\* The store of ch holds both messages, and a was pushed before b (lpush puts the
\* newest first and ltrim cuts from the far end)
PushedBefore(ch, a, b) ==
    \E i, j \in 1..Len(store[ch]) :
        store[ch][i] = a /\ store[ch][j] = b /\ i > j

InStore(ch, a) == \E i \in 1..Len(store[ch]) : store[ch][i] = a

\* C16: when a subscribe that asked for the history has returned on an open
\* connection, the frames it produced are the subscription_ack, then one history
\* frame for each message the store held, those in the order they were pushed,
\* then one history_end frame for the channel.
C16_HistoryReplay ==
    \A e \in Conns :
        (pc[e] = "recv" /\ ep[e].cfg /\ Open(e) /\ redis_ok) =>
            LET n == Len(ep[e].replay)
                ctl == Control(e, ep[e].ch)
                seg == Last(ctl, n + 2)
            IN  /\ Len(ctl) >= n + 2
                /\ seg[1] = Frame("subscription_ack", ep[e].ch)
                /\ seg[n + 2] = Frame("history_end", ep[e].ch)
                /\ \A i \in 1..n : seg[i + 1] = MsgFrame("history", ep[e].ch, ep[e].replay[i])
                /\ \A i, j \in 1..n :
                      (i < j /\ InStore(ep[e].ch, seg[i + 1].mid)
                             /\ InStore(ep[e].ch, seg[j + 1].mid)) =>
                          PushedBefore(ep[e].ch, seg[i + 1].mid, seg[j + 1].mid)

\* Three messages pushed in the order m1, m2, m3 and replayed in that order
C16_Witness ==
    \E e \in Conns :
        /\ pc[e] = "recv" /\ ep[e].cfg /\ Open(e)
        /\ Len(ep[e].replay) = 3
        /\ Len(store[ep[e].ch]) = 3
        /\ Last(Control(e, ep[e].ch), 5)
             = << Frame("subscription_ack", ep[e].ch),
                  MsgFrame("history", ep[e].ch, store[ep[e].ch][3]),
                  MsgFrame("history", ep[e].ch, store[ep[e].ch][2]),
                  MsgFrame("history", ep[e].ch, store[ep[e].ch][1]),
                  Frame("history_end", ep[e].ch) >>

\* Connection e has received the subscription_ack of a subscribe that asked for
\* the history, and not yet the history_end frame.
InReplay(e) == pc[e] \in {"h_lrange", "h_send", "h_end"}

\* C17: no broadcast on a channel begins a send to an open connection that is
\* between the subscription_ack and the history_end frame of its subscribe to
\* that channel: live frames wait for the end of the replay.
C17_NoLiveDuringReplay ==
    [][\A p \in Procs, e \in Conns :
          (pc'[p] = "b_send" /\ bc'[p].cur = e /\ (pc[p] # "b_send" \/ bc[p].cur # e)) =>
              ~(InReplay(e) /\ Open(e) /\ ep[e].ch = bc'[p].channel)]_vars

\* C18: whenever no persisting call stands between its push and its trim, the
\* persisted list of every channel holds at most MAX_MESSAGES_PER_CHANNEL entries.
C18_StoreCap ==
    (\A p \in Procs : pc[p] # "b_ltrim") =>
        \A ch \in Channels : Len(store[ch]) <= MAX_MESSAGES_PER_CHANNEL

\* C19: a subscribe frame handled for a connection id that is not registered
\* ends in ValueError and leaves the registry, the channel index and every
\* connection's subscription set as they were (under SpecRace every frame a
\* client sends is a subscribe frame).
C19_SubscribeUnknown ==
    [][\A e \in Conns :
          (e \notin active_connections /\ ep'[e].frames = ep[e].frames + 1) =>
              /\ pc'[e] = "err_send"
              /\ ep'[e].err = "ValueError"
              /\ active_connections' = active_connections
              /\ user_connections' = user_connections
              /\ channel_subscriptions' = channel_subscriptions
              /\ \A c \in Conns :
                    conn'[c].subscribed_channels = conn[c].subscribed_channels]_vars

\* A connection that an administrative request has removed sends a subscribe frame.
C19_Witness ==
    \E e \in Conns :
        /\ pc[e] = "err_send"
        /\ ep[e].err = "ValueError"
        /\ e \notin active_connections
        /\ ws[e] = "open"
        /\ \A ch \in DOMAIN channel_subscriptions : e \notin channel_subscriptions[ch]

\* C20: a frame handled for an anonymous connection (under SpecAnon, a broadcast
\* frame) starts no broadcast, delivers nothing to any connection, persists
\* nothing and raises nothing, the read loop reads on; and every broadcast that
\* a read loop starts is started for a connection that has a user id.
C20_AnonymousIgnored ==
    [][\A e \in Conns :
          /\ (ep[e].user = Anon /\ ep'[e].frames = ep[e].frames + 1) =>
                /\ pc'[e] = "recv"
                /\ sent' = sent
                /\ store' = store
                /\ bc' = bc
                /\ next_mid' = next_mid
          /\ (pc[e] = "recv" /\ pc'[e] = "b_lpush") => ep[e].user # Anon]_vars

\* An anonymous connection has sent a broadcast frame for a channel that has a
\* subscriber, and the subscriber holds no broadcast.
C20_Witness ==
    \E e \in Conns :
        /\ ep[e].user = Anon
        /\ ep[e].frames >= 1
        /\ ep[e].ch = "ch1"
        /\ pc[e] = "recv"
        /\ bc[e] = NoBroadcast
        /\ store["ch1"] = <<>>
        /\ \E c \in Get(channel_subscriptions, "ch1") \cap active_connections :
              /\ c # e
              /\ Open(c)
              /\ \A i \in 1..Len(sent[c]) : sent[c][i].type # "broadcast"

\* C21: the read loop of a connection whose frame was refused as too long (under
\* SpecOversize the only source of ValueError) does not read on: its next step
\* leaves the loop and disconnects the connection, and that step leaves every
\* other connection registered with its subscriptions.
C21_OversizeTerminates ==
    [][\A e \in Conns :
          (pc[e] = "err_send" /\ ep[e].err = "ValueError" /\ pc'[e] # pc[e]) =>
              /\ pc'[e] \in {"d_unsub", "d_rminfo", "done"}
              /\ \A c \in active_connections \ {e} :
                    /\ c \in active_connections'
                    /\ conn'[c].subscribed_channels = conn[c].subscribed_channels]_vars

\* The read loop of e is between two receives or inside a frame handler.
InLoop(l) ==
    l \in {"recv", "s_sub", "u_unsub", "pong", "err_send",
           "h_lrange", "h_send", "h_end", "b_lpush", "b_ltrim", "b_meta", "b_send"}

\* C22: a read loop that has caught an exception and whose socket is open sends
\* one error frame and goes back to receive; and a read loop is left only when
\* the socket is closed, whatever the exception was (a subscribe on an id that a
\* forced disconnect removed, a store failure, an oversized frame).
C22_LoopContinues ==
    [][\A e \in Conns :
          /\ (pc[e] = "err_send" /\ pc'[e] # pc[e] /\ ws[e] = "open") =>
                /\ pc'[e] = "recv"
                /\ sent'[e] = Append(sent[e], Frame("error", NoCh))
          /\ (InLoop(pc[e]) /\ ~InLoop(pc'[e])) => ws[e] = "closed"]_vars

\* A connection that a forced disconnect removed has sent a subscribe frame, has
\* received the error frame and is reading on.
C22_Witness ==
    \E e \in Conns :
        /\ pc[e] = "recv"
        /\ ws[e] = "open"
        /\ e \notin active_connections
        /\ ep[e].err = "ValueError"
        /\ Len(sent[e]) > 0
        /\ sent[e][Len(sent[e])] = Frame("error", NoCh)

\* An administrative disconnect of e has returned.
ForcedOut(e) ==
    \E a \in Admins : pc[a] = "done" /\ dc[a].cid = e /\ dc[a].res = "ok"

\* C23: once a forced disconnect of a connection has returned, its read loop
\* handles no further frame and nothing more is sent to the connection.
C23_ReadLoopCancelled ==
    [][\A e \in Conns :
          (ForcedOut(e) /\ e \notin active_connections /\ InLoop(pc[e])) =>
              /\ ep'[e].frames = ep[e].frames
              /\ sent'[e] = sent[e]]_vars

\* C24: no channel of channel_subscriptions has an empty subscriber set; the
\* step that removes the last subscriber of a channel deletes the channel key.
C24_NoEmptyChannel ==
    \A ch \in DOMAIN channel_subscriptions : channel_subscriptions[ch] # {}

\* an unsubscribe has just removed the last subscriber of its channel
C24_Witness ==
    \E e \in Conns :
        /\ pc[e] = "u_unsub"
        /\ ep[e].ch \notin DOMAIN channel_subscriptions
        /\ ep[e].ch \notin conn[e].subscribed_channels
        /\ \E i \in 1..Len(sent[e]) :
              sent[e][i] = Frame("subscription_ack", ep[e].ch)

\* C25: a registered connection is in the set of user u exactly when u is its
\* user id, so an anonymous connection is in no set, and every id of every set
\* of user_connections is registered.
C25_UserIndex ==
    /\ \A c \in active_connections, u \in Users \cup {Anon} :
          c \in Get(user_connections, u) <=> conn[c].user_id = u /\ u # Anon
    /\ \A u \in DOMAIN user_connections : user_connections[u] \subseteq active_connections

\* a user's client and an anonymous client are registered, after the disconnect
\* of another user's client completed
C25_Witness ==
    /\ \E a, c \in active_connections :
          /\ conn[a].user_id \in Users
          /\ conn[c].user_id = Anon
          /\ \E p \in Procs :
                /\ dc[p].res = "ok"
                /\ dc[p].uid \in Users \ {conn[a].user_id}
                /\ dc[p].cid \notin active_connections

\* C26: user_connections holds no empty set; the step that removes the last
\* connection of a user deletes the user key.
C26_NoEmptyUser ==
    \A u \in DOMAIN user_connections : user_connections[u] # {}

\* the only connection of a user has been disconnected
C26_Witness ==
    \E p \in Procs :
        /\ dc[p].res = "ok"
        /\ dc[p].uid # Anon
        /\ dc[p].uid \notin DOMAIN user_connections
        /\ dc[p].cid \notin active_connections

\* connection c holds a subscription to channel ch, on both sides
Subscribed(c, ch) ==
    /\ c \in Get(channel_subscriptions, ch)
    /\ ch \in conn[c].subscribed_channels

\* C27: a subscribe frame of a registered connection for a channel it is
\* already subscribed to is accepted, leaves the subscriber set of the channel
\* and the channel set of the connection as they are, and stores the new config
\* for the channel.
C27_Resubscribe ==
    [][\A e \in Conns :
          (/\ pc[e] = "recv"
           /\ ep'[e].frames # ep[e].frames
           /\ e \in active_connections
           /\ Subscribed(e, "ch1")) =>
              /\ pc'[e] = "s_sub"
              /\ channel_subscriptions' = channel_subscriptions
              /\ conn'[e].subscribed_channels = conn[e].subscribed_channels
              /\ conn'[e].channel_configs["ch1"] = ep'[e].cfg]_vars

\* a second subscribe has replaced the config of the first one and is acknowledged
C27_Witness ==
    \E e \in Conns :
        /\ pc[e] = "recv"
        /\ Subscribed(e, "ch1")
        /\ conn[e].channel_configs["ch1"] = FALSE
        /\ \E i, j \in 1..Len(sent[e]) :
              /\ i < j
              /\ sent[e][i] = Frame("subscription_ack", "ch1")
              /\ sent[e][i + 1] = Frame("history_end", "ch1")
              /\ sent[e][j] = Frame("subscription_ack", "ch1")

\* C28: an unsubscribe of a registered connection for a channel it holds no
\* subscription to raises nothing and leaves channel_subscriptions and the
\* channel set and configs of every connection as they are.
C28_UnsubscribeNoop ==
    [][/\ \A e \in Conns :
            (/\ pc[e] = "recv"
             /\ pc'[e] = "u_unsub"
             /\ ~Subscribed(e, ep'[e].ch)) =>
                /\ channel_subscriptions' = channel_subscriptions
                /\ \A c \in Conns :
                      /\ conn'[c].subscribed_channels = conn[c].subscribed_channels
                      /\ conn'[c].channel_configs = conn[c].channel_configs
       /\ (/\ pc[RegConns] = "recv"
           /\ ep'[RegConns].frames # ep[RegConns].frames
           /\ RegConns \in active_connections) => pc'[RegConns] = "u_unsub"]_vars

\* an unsubscribe for a channel that another connection holds, sent by a
\* connection that never joined it, has been acknowledged
C28_Witness ==
    \E e \in Conns :
        /\ pc[e] = "recv"
        /\ conn[e].subscribed_channels = {}
        /\ Get(channel_subscriptions, ep[e].ch) # {}
        /\ sent[e] = <<ConnAck(e), Frame("unsubscription_ack", ep[e].ch)>>

\* C29: when the store is down while connect records the presence of a
\* registered connection whose socket is open, connect still returns: the
\* connection stays registered, gets its connection_ack and enters its read loop.
C29_StoreFailureAdmits ==
    [][\A e \in Conns :
          (/\ pc[e] = "conn_ack"
           /\ pc'[e] # "conn_ack"
           /\ ~redis_ok
           /\ Open(e)
           /\ e \in active_connections) =>
              /\ pc'[e] = "recv"
              /\ e \in active_connections'
              /\ sent'[e] = Append(sent[e], ConnAck(e))]_vars

\* C30: when the store is down while subscribe_channel records the subscription
\* of a connection whose socket is open, the subscribe still completes: the
\* connection is subscribed on both sides, gets its subscription_ack and goes on
\* to the history replay its config asks for, or to the next frame.
C30_StoreFailureSubscribes ==
    [][\A e \in Conns :
          (/\ pc[e] = "s_sub"
           /\ pc'[e] # "s_sub"
           /\ ~redis_ok
           /\ Open(e)) =>
              /\ e \in Get(channel_subscriptions', ep[e].ch)
              /\ ep[e].ch \in conn'[e].subscribed_channels
              /\ sent'[e] = Append(sent[e], Frame("subscription_ack", ep[e].ch))
              /\ pc'[e] = IF ep[e].cfg THEN "h_lrange" ELSE "recv"]_vars

\* positions of the connection_ack frames sent to connection c
Acks(c) == {i \in 1..Len(sent[c]) : sent[c][i].type = "connection_ack"}

\* C31: a connect that returned has sent exactly one connection_ack to its
\* connection, carrying the id that connect returned, which is the id the
\* connection was registered under; a connect that has not returned has sent none.
C31_OneConnectionAck ==
    \A e \in Conns :
        IF ep[e].ret = NoConn
        THEN Acks(e) = {}
        ELSE /\ ep[e].ret = e
             /\ Cardinality(Acks(e)) = 1
             /\ \A i \in Acks(e) : sent[e][i].connection_id = ep[e].ret

\* a connect has returned, and its connection is registered and reading
C31_Witness ==
    \E e \in Conns :
        /\ ep[e].ret = e
        /\ e \in active_connections
        /\ pc[e] = "recv"
        /\ Len(sent[e]) = 1
        /\ sent[e][1].type = "connection_ack"
        /\ sent[e][1].connection_id = e

\* C32: a send_to_user call that has ended has returned its counts without
\* raising, has attempted every connection of the user that was registered when
\* the call began and still is, and has counted every attempt as sent or failed.
C32_SendToUserCompletes ==
    \A a \in Admins :
        (pc[a] = "done" /\ bc[a].user # Anon) =>
            /\ bc[a].res = "ok"
            /\ bc[a].subs_at \cap active_connections \subseteq bc[a].visited
            /\ bc[a].sent_count + bc[a].failed_count
                  = Cardinality(bc[a].visited \ bc[a].left)

\* C33: no connection of a user that is named in both the include list and the
\* exclude list of a broadcast receives the message of that broadcast.
C33_ExcludeWins ==
    \A p \in Admins, c \in Conns :
        (/\ bc[p].mid # 0
         /\ conn[c].user_id \in bc[p].include.ids \cap bc[p].exclude.ids) =>
            c \notin Delivered(p)

\* u1 is listed and excluded, u2 is listed: of three subscribers only the
\* connection of u2 has received the message
C33_Witness ==
    \E p \in Admins :
        /\ bc[p].res = "ok"
        /\ bc[p].include = Ids({"u1", "u2"})
        /\ bc[p].exclude = Ids({"u1"})
        /\ Cardinality(bc[p].subs_at) = 3
        /\ bc[p].sent_count = 1
        /\ \E c \in bc[p].subs_at : conn[c].user_id = "u1" /\ c \in active_connections
        /\ Delivered(p) = {c \in bc[p].subs_at : conn[c].user_id = "u2"}

\* C34: a finished broadcast whose include list is given, empty or not, has
\* delivered only to subscribers owned by a listed user, so with an empty list
\* to no connection.
C34_GivenIncludeNarrows ==
    \A p \in Admins :
        (bc[p].res = "ok" /\ bc[p].include.given) => Delivered(p) \subseteq Listed(p)

\* the entries of the list read by the replay of e that load, in the order read
Loaded(e) == SelectSeq(ep[e].replay, Loads)

\* C35: a history replay never raises out of subscribe_channel; when it reaches
\* its end with the socket open, the connection has received, after its
\* subscription_ack, one history frame for every entry that loads, oldest first,
\* and none for an entry that does not load, and it then receives history_end.
C35_ReplaySkipsBad ==
    [][\A e \in Conns :
          /\ InReplay(e) => pc'[e] \in {"h_lrange", "h_send", "h_end", "recv"}
          /\ (pc[e] = "h_end" /\ Open(e)) =>
                LET n == Len(Loaded(e))
                    ctl == Control(e, ep[e].ch)
                    seg == Last(ctl, n + 1)
                IN  /\ Len(ctl) >= n + 1
                    /\ seg[1] = Frame("subscription_ack", ep[e].ch)
                    /\ \A i \in 1..n :
                          seg[i + 1] = MsgFrame("history", ep[e].ch, Loaded(e)[i])
                    /\ \A i, j \in 1..n :
                          (i < j /\ InStore(ep[e].ch, Loaded(e)[i])
                                 /\ InStore(ep[e].ch, Loaded(e)[j])) =>
                              PushedBefore(ep[e].ch, Loaded(e)[i], Loaded(e)[j])
                    /\ (pc'[e] # "h_end") =>
                          sent'[e] = Append(sent[e], Frame("history_end", ep[e].ch))]_vars

\* the older of two stored messages did not load: the replay sent the newer one
\* and then history_end
C35_Witness ==
    \E e \in Conns :
        /\ pc[e] = "recv"
        /\ Open(e)
        /\ Len(ep[e].replay) = 2
        /\ ~Loads(ep[e].replay[1])
        /\ Loads(ep[e].replay[2])
        /\ Len(sent[e]) >= 3
        /\ Last(sent[e], 3) = <<Frame("subscription_ack", ep[e].ch),
                                MsgFrame("history", ep[e].ch, ep[e].replay[2]),
                                Frame("history_end", ep[e].ch)>>

\* the connections the sweep has collected, or collects in its next step, and
\* has not yet invoked disconnect on
Uninvoked ==
    {hb.evict[i] : i \in 1..Len(hb.evict)}
       \cup IF pc[HB] = "hb_send" /\ (~Open(hb.cur) \/ TimedOut(hb.ctime, now))
            THEN {hb.cur} ELSE {}

\* C36: a heartbeat sweep invokes its first disconnect only after it has
\* attempted a heartbeat on every registered connection, and it ends only after
\* it has invoked disconnect on every connection it collected that is registered.
C36_CollectThenEvict ==
    [][/\ (pc[HB] = "hb_send" /\ pc'[HB] \in {"d_unsub", "d_rminfo"}) =>
             active_connections \subseteq hb'.visited
       /\ (pc[HB] # "hb_sleep" /\ pc'[HB] = "hb_sleep") =>
             Uninvoked \cap active_connections' = {}]_vars

\* C37: a registered connection whose socket has closed is eventually in no map
\* of the manager, whatever number of channels it was subscribed to.
C37_ClosedEventuallyRemoved ==
    \A c \in Conns :
        (c \in active_connections /\ ws[c] = "closed") ~> Absent(c)

\* a closed connection that held two channels has been removed by the sweep
\* while its endpoint was still in its read loop
C37_Witness ==
    \E c \in Conns :
        /\ ws[c] = "closed"
        /\ Absent(c)
        /\ dc[HB].cid = c
        /\ hb.last = "done"
        /\ pc[HB] = "hb_sleep"
        /\ pc[c] = "recv"
        /\ Cardinality({i \in 1..Len(sent[c]) : sent[c][i].type = "subscription_ack"}) = 2

\* C38: once the endpoint of a client whose connect did not return has ended,
\* the connection is neither in active_connections nor in a set of
\* user_connections.
C38_FailedConnectCleaned ==
    \A e \in Conns :
        (pc[e] = "done" /\ ep[e].ret = NoConn) =>
            /\ e \notin active_connections
            /\ \A u \in DOMAIN user_connections : e \notin user_connections[u]

\* C39: the first frame sent to a connection is its connection_ack.
C39_AckFirst ==
    \A c \in Conns : sent[c] # <<>> => sent[c][1].type = "connection_ack"

\* the connections the operation of this step is applied to: the connection of
\* the endpoint that takes the step, and the argument of a disconnect call
Subjects ==
    {e \in Conns : pc'[e] # pc[e] \/ ep'[e] # ep[e]}
       \cup {dc'[q].cid : q \in {p \in Procs : dc'[p] # dc[p]}}

\* this step takes something of connection d away from the maps, or changes its
\* channel set or its configs
Affected(d) ==
    \/ conn'[d].subscribed_channels # conn[d].subscribed_channels
    \/ conn'[d].channel_configs # conn[d].channel_configs
    \/ d \in active_connections \ active_connections'
    \/ \E ch \in DOMAIN channel_subscriptions :
          d \in channel_subscriptions[ch] \ Get(channel_subscriptions', ch)
    \/ \E u \in DOMAIN user_connections :
          d \in user_connections[u] \ Get(user_connections', u)

\* process p takes this step inside broadcast_to_channel or send_to_user
Sending(p) ==
    \/ bc'[p] # bc[p]
    \/ pc[p] \in {"b_lpush", "b_ltrim", "b_meta", "b_send", "u_send"} /\ pc'[p] # pc[p]

\* C40: a step of subscribe_channel, unsubscribe_channel or disconnect affects
\* only the connection it is applied to, and a step of broadcast_to_channel or
\* send_to_user changes none of active_connections, user_connections and
\* channel_subscriptions.
C40_FrameEffect ==
    [][/\ \A d \in Conns : Affected(d) => d \in Subjects
       /\ \A p \in Procs :
             Sending(p) =>
                /\ active_connections' = active_connections
                /\ user_connections' = user_connections
                /\ channel_subscriptions' = channel_subscriptions]_vars

\* an administrative disconnect has removed one of two subscribers of the
\* channel; the other is registered, subscribed and in its user's set, and has
\* received a broadcast or a user message
C40_Witness ==
    \E c, d \in Conns :
        /\ c # d
        /\ dc[NumConns + 1].cid = c
        /\ dc[NumConns + 1].res = "ok"
        /\ Absent(c)
        /\ \E i \in 1..Len(sent[c]) : sent[c][i] = Frame("subscription_ack", "ch1")
        /\ d \in active_connections
        /\ Subscribed(d, "ch1")
        /\ d \in Get(user_connections, "u1")
        /\ bc[NumConns + NumAdmins].res = "ok"
        /\ bc[NumConns + NumAdmins].sent_count >= 1

====
